---------------------------- MODULE Spec2Model ----------------------------
(***************************************************************************)
(* A model of md_selector (src/main.go): an interactive terminal checklist *)
(* over the Markdown files of a directory.                                 *)
(*                                                                         *)
(* Strings are sequences of one-character strings, so that trimming, line  *)
(* splitting, extension stripping and case folding are computed as the     *)
(* code computes them.  File-system calls are assumed to succeed, apart    *)
(* from the absence of output.txt, a failing directory read and a failing  *)
(* screen initialisation.                                                  *)
(***************************************************************************)
EXTENDS Integers, Sequences, FiniteSets, TLC

VARIABLES
    entries,     \* the directory listing os.ReadDir returns (main.go:227)
    artifact,    \* the file output.txt in the working directory
    artifact0,   \* output.txt as it was when the run started
    height,      \* the terminal height screen.Size() reports
    pc,          \* the position of main / runSelector
    catalog0,    \* the catalog as listMarkdown returned it
    items,       \* the catalog ([]item)
    cursor,      \* runSelector's cursor
    offset,      \* runSelector's offset
    viewHeight,  \* runSelector's viewHeight, as returned by drawScreen
    ev,          \* the event PollEvent returned in this loop iteration
    session,     \* "None", "Running", "Committed", "Aborted"
    finalItems,  \* what runSelector returned: a catalog or Nil
    screen,      \* "none", "active", "finalized"
    outcome,     \* how the run ended: "nothing", "aborted", "saved", "empty",
                 \* or the error "dirError", "unknownEntry", "screenError"
    exitCode,    \* the process exit status
    errEntry,    \* the entry named by the unknown-entry error
    count,       \* the count writeSelections returned
    writes,      \* how often output.txt was written
    finis,       \* how often screen.Fini was called
    prevOp,      \* the screen operation before the last one
    lastOp,      \* the last of "draw" (drawScreen) and "poll" (PollEvent)
    args,        \* the arguments of a function applied on its own
    ret          \* its result

vars == <<entries, artifact, artifact0, height, pc, catalog0, items, cursor, offset,
          viewHeight, ev, session, finalItems, screen, outcome, exitCode,
          errEntry, count, writes, finis, prevOp, lastOp, args, ret>>

\* What the run did to the screen so far
hist == <<finis, prevOp, lastOp>>

(***************************************************************************)
(* Bounds                                                                  *)
(***************************************************************************)
MaxFiles == 2       \* directory entries in a run of the whole program
MaxArtifactLen == 2 \* characters of output.txt at startup
MaxHeight == 4      \* terminal rows
MaxItems == 5       \* catalog length when the selector is run on its own

\* output.txt: absent, or present with a text
NoFile == [exists |-> FALSE, text |-> <<>>]
File(text) == [exists |-> TRUE, text |-> text]
\* Go's nil slice and the empty string
Nil == <<>>
None == <<>>

(***************************************************************************)
(* Characters and strings                                                  *)
(***************************************************************************)
Code(c) ==
    CASE c = "\n" -> 10
      [] c = " "  -> 32
      [] c = "."  -> 46
      [] c = "A"  -> 65
      [] c = "B"  -> 66
      [] c = "C"  -> 67
      [] c = "D"  -> 68
      [] c = "M"  -> 77
      [] c = "a"  -> 97
      [] c = "b"  -> 98
      [] c = "c"  -> 99
      [] c = "d"  -> 100
      [] c = "e"  -> 101
      [] c = "g"  -> 103
      [] c = "h"  -> 104
      [] c = "l"  -> 108
      [] c = "m"  -> 109
      [] c = "p"  -> 112
      [] c = "t"  -> 116
      [] c = "x"  -> 120
      [] OTHER    -> 0

ToLowerChar(c) ==
    CASE c = "A" -> "a"
      [] c = "B" -> "b"
      [] c = "C" -> "c"
      [] c = "D" -> "d"
      [] c = "M" -> "m"
      [] OTHER   -> c

ToLower(s) == [i \in 1..Len(s) |-> ToLowerChar(s[i])]

IsSpace(c) == c \in {" ", "\n", "\t", "\r"}

RECURSIVE TrimLeft(_)
TrimLeft(s) ==
    IF s # <<>> /\ IsSpace(Head(s)) THEN TrimLeft(Tail(s)) ELSE s

RECURSIVE TrimRight(_)
TrimRight(s) ==
    IF s # <<>> /\ IsSpace(s[Len(s)])
    THEN TrimRight(SubSeq(s, 1, Len(s) - 1))
    ELSE s

TrimSpace(s) == TrimRight(TrimLeft(s))

\* strings.Compare(a, b) < 0: bytewise lexicographic order
RECURSIVE StrLess(_, _)
StrLess(a, b) ==
    IF b = <<>> THEN FALSE
    ELSE IF a = <<>> THEN TRUE
    ELSE IF Code(Head(a)) # Code(Head(b)) THEN Code(Head(a)) < Code(Head(b))
    ELSE StrLess(Tail(a), Tail(b))

\* filepath.Ext: the suffix beginning at the final dot, or "" if there is none
RECURSIVE Ext(_)
Ext(name) ==
    IF name = <<>> THEN <<>>
    ELSE IF Ext(Tail(name)) # <<>> THEN Ext(Tail(name))
    ELSE IF Head(name) = "." THEN name
    ELSE <<>>

HasSuffix(s, suffix) ==
    /\ Len(suffix) <= Len(s)
    /\ SubSeq(s, Len(s) - Len(suffix) + 1, Len(s)) = suffix

TrimSuffix(s, suffix) ==
    IF HasSuffix(s, suffix) THEN SubSeq(s, 1, Len(s) - Len(suffix)) ELSE s

\* bufio.ScanLines: strip one trailing carriage return
DropCR(line) ==
    IF line # <<>> /\ line[Len(line)] = "\r"
    THEN SubSeq(line, 1, Len(line) - 1)
    ELSE line

\* The tokens bufio.Scanner yields for a file: the text before each newline,
\* and the text after the last newline when it is not empty.
RECURSIVE ScanLines(_, _)
ScanLines(data, line) ==
    IF data = <<>>
    THEN IF line = <<>> THEN <<>> ELSE <<DropCR(line)>>
    ELSE IF Head(data) = "\n"
    THEN <<DropCR(line)>> \o ScanLines(Tail(data), <<>>)
    ELSE ScanLines(Tail(data), Append(line, Head(data)))

(***************************************************************************)
(* The functions of main.go                                                *)
(***************************************************************************)
max(a, b) == IF a > b THEN a ELSE b

headerLines == 2

\* ensureVisible scrolling down one row short: cursor - viewHeight
ensureVisibleShort(cur, off, vh, total) ==
    IF vh <= 0 THEN 0
    ELSE
        LET maxOffset == max(0, total - vh)
            o1 == IF cur < off THEN cur
                  ELSE IF cur >= off + vh THEN cur - vh
                  ELSE off
            o2 == IF o1 > maxOffset THEN maxOffset ELSE o1
        IN  IF o2 < 0 THEN 0 ELSE o2

\* ensureVisible without the final clamp at 0
ensureVisibleNoFloor(cur, off, vh, total) ==
    IF vh <= 0 THEN 0
    ELSE
        LET maxOffset == max(0, total - vh)
            o1 == IF cur < off THEN cur
                  ELSE IF cur >= off + vh THEN cur - vh + 1
                  ELSE off
        IN  IF o1 > maxOffset THEN maxOffset ELSE o1

\* ensureVisible without the test of the view height
ensureVisibleNoGuard(cur, off, vh, total) ==
    LET maxOffset == max(0, total - vh)
        o1 == IF cur < off THEN cur
              ELSE IF cur >= off + vh THEN cur - vh + 1
              ELSE off
        o2 == IF o1 > maxOffset THEN maxOffset ELSE o1
    IN  IF o2 < 0 THEN 0 ELSE o2

\* ensureVisible (main.go:188-205)
ensureVisible(cur, off, vh, total) ==
    IF vh <= 0 THEN 0
    ELSE
        LET maxOffset == max(0, total - vh)
            o1 == IF cur < off THEN cur
                  ELSE IF cur >= off + vh THEN cur - vh + 1
                  ELSE off
            o2 == IF o1 > maxOffset THEN maxOffset ELSE o1
        IN  IF o2 < 0 THEN 0 ELSE o2

\* drawScreen's view height for a terminal of h rows (main.go:144-149)
ViewHeightOf(h) ==
    IF h - headerLines < 1 THEN 1 ELSE h - headerLines

\* drawScreen starting at the offset it is given
DrawStartAsGiven(its, off, vh) == off

\* The first catalog index drawScreen draws (main.go:160-162)
DrawStart(its, off, vh) ==
    IF off > Len(its) - vh THEN max(0, Len(its) - vh) ELSE off

\* One past the last catalog index drawScreen draws (main.go:163-166)
DrawEnd(its, off, vh) ==
    LET end == DrawStart(its, off, vh) + vh
    IN  IF end > Len(its) THEN Len(its) ELSE end

\* The entries listMarkdown keeps, as unchecked items in directory order
\* (main.go:232-254)
RECURSIVE Accepted(_)
Accepted(es) ==
    IF es = <<>> THEN <<>>
    ELSE
        LET entry == Head(es)
            name == entry.name
            ext == ToLower(Ext(name))
            stem == TrimSuffix(name, Ext(name))
        IN  IF entry.kind # "file" THEN Accepted(Tail(es))
            ELSE IF ext # <<".", "m", "d">> THEN Accepted(Tail(es))
            ELSE IF stem = <<>> THEN Accepted(Tail(es))
            ELSE <<[name |-> stem, checked |-> FALSE]>> \o Accepted(Tail(es))

\* A less function that compares the names as they are
LessCaseSensitive(x, y) == StrLess(x.name, y.name)

\* The less function handed to sort.Slice (main.go:256-258)
Less(x, y) == StrLess(ToLower(x.name), ToLower(y.name))

Injections(n) ==
    {p \in [1..n -> 1..n] : \A i, j \in 1..n : i # j => p[i] # p[j]}

\* sort.Slice is not stable: every arrangement in which no item is Less
\* than an earlier one is a possible result.
SortSlice(its) ==
    LET n == Len(its)
        arranged == {[i \in 1..n |-> its[p[i]]] : p \in Injections(n)}
    IN  {r \in arranged : \A i, j \in 1..n : i < j => ~Less(r[j], r[i])}

\* listMarkdown (main.go:226-261): the catalogs it may return
listMarkdown(es) == SortSlice(Accepted(es))

\* index[entry] of applyPreviousSelections (main.go:274-277, 287): the last
\* position holding the name, 0 when the map has no such key
IndexOf(its, name) ==
    LET hits == {i \in 1..Len(its) : its[i].name = name}
    IN  IF hits = {} THEN 0 ELSE CHOOSE i \in hits : \A j \in hits : j <= i

\* The scanner loop passing over an unknown entry instead of returning
RECURSIVE ApplyLinesSkipping(_, _)
ApplyLinesSkipping(its, lines) ==
    IF lines = <<>> THEN [items |-> its, err |-> FALSE, entry |-> None]
    ELSE
        LET entry == TrimSpace(Head(lines))
            idx == IndexOf(its, entry)
        IN  IF entry = <<>> \/ idx = 0 THEN ApplyLinesSkipping(its, Tail(lines))
            ELSE ApplyLinesSkipping([its EXCEPT ![idx].checked = TRUE],
                                    Tail(lines))

\* The scanner loop of applyPreviousSelections (main.go:281-292)
RECURSIVE ApplyLines(_, _)
ApplyLines(its, lines) ==
    IF lines = <<>> THEN [items |-> its, err |-> FALSE, entry |-> None]
    ELSE
        LET entry == TrimSpace(Head(lines))
            idx == IndexOf(its, entry)
        IN  IF entry = <<>> THEN ApplyLines(its, Tail(lines))
            ELSE IF idx = 0 THEN [items |-> Nil, err |-> TRUE, entry |-> entry]
            ELSE ApplyLines([its EXCEPT ![idx].checked = TRUE], Tail(lines))

\* applyPreviousSelections (main.go:263-298)
applyPreviousSelections(its, file) ==
    IF ~file.exists THEN [items |-> its, err |-> FALSE, entry |-> None]
    ELSE ApplyLines(its, ScanLines(file.text, <<>>))

\* The builder loop without the skip of unchecked items
RECURSIVE SelectedAll(_)
SelectedAll(its) ==
    IF its = <<>> THEN [text |-> <<>>, count |-> 0]
    ELSE
        LET rest == SelectedAll(Tail(its))
        IN  [text |-> Head(its).name \o <<"\n">> \o rest.text,
             count |-> rest.count + 1]

\* The builder loop of writeSelections (main.go:303-310)
RECURSIVE Selected(_)
Selected(its) ==
    IF its = <<>> THEN [text |-> <<>>, count |-> 0]
    ELSE
        LET rest == Selected(Tail(its))
        IN  IF ~Head(its).checked THEN rest
            ELSE [text |-> Head(its).name \o <<"\n">> \o rest.text,
                  count |-> rest.count + 1]

\* writeSelections (main.go:300-317): the file content and the count
writeSelections(its) == Selected(its)

(***************************************************************************)
(* Inputs                                                                  *)
(***************************************************************************)
SeqsUpTo(S, n) == UNION {[1..k -> S] : k \in 0..n}

Stems == {<<"a">>, <<"A">>, <<" ">>}
MoreStems == Stems \cup {<<" ", "a">>, <<"b">>}
MdExts == {<<".", "m", "d">>, <<".", "M", "D">>}

\* The directory entries a run may meet: Markdown files, a file without a
\* stem, a file of another type, a directory and a symbolic link
EntriesOver(stems) ==
    {[name |-> stem \o ext, kind |-> "file"] : stem \in stems, ext \in MdExts}
    \cup {[name |-> <<".", "m", "d">>, kind |-> "file"],
          [name |-> <<"a", ".", "t", "x", "t">>, kind |-> "file"],
          [name |-> <<"d", ".", "m", "d">>, kind |-> "dir"],
          [name |-> <<"m", ".", "m", "d">>, kind |-> "other"]}

\* os.ReadDir returns the entries sorted by file name
ReadDir(S) ==
    CHOOSE es \in [1..Cardinality(S) -> S] :
        \A i, j \in 1..Cardinality(S) : i < j => StrLess(es[i].name, es[j].name)

DirsOver(U) == {ReadDir(S) : S \in {T \in SUBSET U : Cardinality(T) <= MaxFiles}}

\* The directory of the end-to-end example: alpha.md, beta.md, gamma.md
ExampleDir ==
    <<[name |-> <<"a", "l", "p", "h", "a", ".", "m", "d">>, kind |-> "file"],
      [name |-> <<"b", "e", "t", "a", ".", "m", "d">>, kind |-> "file"],
      [name |-> <<"g", "a", "m", "m", "a", ".", "m", "d">>, kind |-> "file"]>>

Dirs == DirsOver(EntriesOver(Stems)) \cup {ExampleDir}

\* The directory of the ordering example: B.md, a.md, C.md, as os.ReadDir
\* returns them
OrderExampleDir ==
    <<[name |-> <<"B", ".", "m", "d">>, kind |-> "file"],
      [name |-> <<"C", ".", "m", "d">>, kind |-> "file"],
      [name |-> <<"a", ".", "m", "d">>, kind |-> "file"]>>

\* The directories listMarkdown is applied to on its own
ListDirs ==
    DirsOver(EntriesOver(MoreStems \cup {<<"B">>})) \cup {ExampleDir, OrderExampleDir}

ArtifactChars == {"a", "b", " ", "\n"}
\* Files of several lines that name a file "b", which no directory holds
LongFiles ==
    {File(<<"b", "\n", "a">>), File(<<"a", "\n", "b">>),
     File(<<" ", "a", " ", "\n", "\n", "b", " ", "\n", "a", "b", "\n">>)}

Artifacts ==
    {NoFile} \cup {File(t) : t \in SeqsUpTo(ArtifactChars, MaxArtifactLen)}
             \cup LongFiles

\* The terminal heights met: 2 rows leave no room below the header
Heights == 2..MaxHeight

CancelKeys == {"Esc", "CtrlC", "q", "Q"}
UpKeys == {"Up", "k"}
DownKeys == {"Down", "j"}

(***************************************************************************)
(* main (main.go:21-78)                                                    *)
(***************************************************************************)
\* Nothing has run yet
Idle ==
    /\ cursor = 0 /\ offset = 0 /\ viewHeight = 0 /\ ev = "none"
    /\ session = "None" /\ finalItems = Nil /\ screen = "none"
    /\ outcome = "none" /\ exitCode = -1 /\ errEntry = None
    /\ count = 0 /\ writes = 0
    /\ finis = 0 /\ prevOp = "none" /\ lastOp = "none"

NoCall == args = <<>> /\ ret = <<>>

Init ==
    /\ entries \in Dirs
    /\ artifact \in Artifacts
    /\ artifact0 = artifact
    /\ height \in Heights
    /\ pc = "main"
    /\ catalog0 = <<>>
    /\ items = <<>>
    /\ Idle
    /\ NoCall

\* exitErr (main.go:319-327)
ExitErr(kind, entry) ==
    /\ outcome' = kind
    /\ errEntry' = entry
    /\ exitCode' = 1
    /\ pc' = "done"

\* items, err := listMarkdown(absTarget) succeeds (main.go:39)
ListMarkdown ==
    /\ pc = "main"
    /\ items' \in listMarkdown(entries)
    /\ catalog0' = items'
    /\ entries' = <<>>
    /\ pc' = "listed"
    /\ UNCHANGED <<artifact, artifact0, height, cursor, offset, viewHeight, ev,
                   session, finalItems, screen, outcome, exitCode, errEntry,
                   count, writes, args, ret>>
    /\ UNCHANGED hist

\* os.ReadDir fails (main.go:227-230, 40-42)
ListError ==
    /\ pc = "main"
    /\ entries' = <<>>
    /\ ExitErr("dirError", None)
    /\ UNCHANGED <<artifact, artifact0, catalog0, height, items, cursor, offset,
                   viewHeight, ev, session, finalItems, screen, count, writes,
                   args, ret>>
    /\ UNCHANGED hist

\* items, err = applyPreviousSelections(items, cwd) (main.go:49-52)
ApplyPrevious ==
    /\ pc = "listed"
    /\ LET r == applyPreviousSelections(items, artifact)
       IN  IF r.err
           THEN /\ ExitErr("unknownEntry", r.entry)
                /\ items' = r.items
           ELSE /\ items' = r.items
                /\ pc' = "reconciled"
                /\ UNCHANGED <<outcome, exitCode, errEntry>>
    /\ UNCHANGED <<entries, artifact, artifact0, catalog0, height, cursor, offset,
                   viewHeight, ev, session, finalItems, screen, count, writes,
                   args, ret>>
    /\ UNCHANGED hist

\* if len(items) == 0 { ...; return } (main.go:54-57)
NothingToDo ==
    /\ pc = "reconciled"
    /\ Len(items) = 0
    /\ outcome' = "nothing"
    /\ exitCode' = 0
    /\ pc' = "done"
    /\ UNCHANGED <<entries, artifact, artifact0, catalog0, height, items, cursor, offset,
                   viewHeight, ev, session, finalItems, screen, errEntry,
                   count, writes, args, ret>>
    /\ UNCHANGED hist

\* main calls runSelector (main.go:59)
CallSelector ==
    /\ pc = "reconciled"
    /\ Len(items) # 0
    /\ pc' = "select"
    /\ UNCHANGED <<entries, artifact, artifact0, catalog0, height, items, cursor, offset,
                   viewHeight, ev, session, finalItems, screen, outcome,
                   exitCode, errEntry, count, writes, args, ret>>
    /\ UNCHANGED hist

(***************************************************************************)
(* runSelector (main.go:80-140)                                            *)
(***************************************************************************)
\* drawScreen or screen.PollEvent is called
Op(o) ==
    /\ prevOp' = lastOp
    /\ lastOp' = o

\* The screen is created and initialised (main.go:81-97)
StartSelector ==
    /\ pc = "select"
    /\ screen' = "active"
    /\ session' = "Running"
    /\ cursor' = 0
    /\ offset' = 0
    /\ pc' = "draw"
    /\ UNCHANGED <<entries, artifact, artifact0, catalog0, height, items, viewHeight, ev,
                   finalItems, outcome, exitCode, errEntry, count, writes,
                   args, ret>>
    /\ UNCHANGED hist

\* tcell.NewScreen or screen.Init fails (main.go:81-87, 60-62)
ScreenError ==
    /\ pc = "select"
    /\ ExitErr("screenError", None)
    /\ UNCHANGED <<entries, artifact, artifact0, catalog0, height, items, cursor, offset,
                   viewHeight, ev, session, finalItems, screen, count, writes,
                   args, ret>>
    /\ UNCHANGED hist

\* viewHeight := drawScreen(...) (main.go:100, 142-186)
Draw ==
    /\ pc = "draw"
    /\ viewHeight' = ViewHeightOf(height)
    /\ ev' = "none"
    /\ pc' = "poll"
    /\ UNCHANGED <<entries, artifact, artifact0, catalog0, height, items, cursor, offset,
                   session, finalItems, screen, outcome, exitCode, errEntry,
                   count, writes, args, ret>>
    /\ Op("draw")
    /\ UNCHANGED finis

\* The cursor after KeyUp that goes from the first item to the last
CursorUpWrapping(cur) == IF cur > 0 THEN cur - 1 ELSE max(0, Len(items) - 1)

\* The cursor after KeyUp or 'k' (main.go:107-110, 121-124)
CursorUp(cur) == IF cur > 0 THEN cur - 1 ELSE cur

\* The cursor after KeyDown with the bound tested by inequality
CursorDownUnlessLast(cur, its) == IF cur # Len(its) - 1 THEN cur + 1 ELSE cur

\* The cursor after KeyDown or 'j' (main.go:111-114, 125-128)
CursorDown(cur, its) == IF cur < Len(its) - 1 THEN cur + 1 ELSE cur

\* The catalog after a ' ' that checks the item and never unchecks it
ToggledOn(its, cur) ==
    IF Len(its) > 0
    THEN [its EXCEPT ![cur + 1].checked = TRUE]
    ELSE its

\* The catalog after ' ' (main.go:129-132)
Toggled(its, cur) ==
    IF Len(its) > 0
    THEN [its EXCEPT ![cur + 1].checked = ~its[cur + 1].checked]
    ELSE its

\* The end of the EventKey case (main.go:135) and of the loop body
AfterKey(key, cur, its) ==
    /\ ev' = key
    /\ cursor' = cur
    /\ items' = its
    /\ offset' = ensureVisible(cur, offset, viewHeight, Len(its))
    /\ pc' = "draw"
    /\ UNCHANGED <<entries, artifact, artifact0, catalog0, height, viewHeight, session,
                   finalItems, screen, outcome, exitCode, errEntry, count,
                   writes, args, ret>>
    /\ Op("poll")
    /\ UNCHANGED finis

MoveUp ==
    /\ pc = "poll"
    /\ \E key \in UpKeys : AfterKey(key, CursorUp(cursor), items)

MoveDown ==
    /\ pc = "poll"
    /\ \E key \in DownKeys : AfterKey(key, CursorDown(cursor, items), items)

Toggle ==
    /\ pc = "poll"
    /\ AfterKey("Space", cursor, Toggled(items, cursor))

\* Any other key or rune (main.go:104, 118)
IgnoredKey ==
    /\ pc = "poll"
    /\ AfterKey("Other", cursor, items)

\* A return of runSelector that leaves the screen as it is
ReturnNoFini(key, state, result) ==
    /\ ev' = key
    /\ session' = state
    /\ finalItems' = result
    /\ pc' = "returned"
    /\ Op("poll")
    /\ UNCHANGED <<entries, artifact, artifact0, catalog0, height, items, cursor, offset,
                   viewHeight, screen, outcome, exitCode, errEntry, count, writes,
                   finis, args, ret>>

\* The return of runSelector: the deferred screen.Fini runs (main.go:88)
Return(key, state, result) ==
    /\ ev' = key
    /\ session' = state
    /\ finalItems' = result
    /\ screen' = "finalized"
    /\ pc' = "returned"
    /\ UNCHANGED <<entries, artifact, artifact0, catalog0, height, items, cursor, offset,
                   viewHeight, outcome, exitCode, errEntry, count, writes,
                   args, ret>>
    /\ Op("poll")
    /\ finis' = finis + 1

\* The cancel keys returning the catalog as Enter does
CancelCommits ==
    /\ pc = "poll"
    /\ \E key \in CancelKeys : Return(key, "Committed", items)

\* Escape, Ctrl-C, 'q', 'Q' (main.go:105-106, 119-120)
Cancel ==
    /\ pc = "poll"
    /\ \E key \in CancelKeys : Return(key, "Aborted", Nil)

\* Enter (main.go:115-116)
Commit ==
    /\ pc = "poll"
    /\ Return("Enter", "Committed", items)

\* EventResize (main.go:136-137): the terminal has a new size
Resize ==
    /\ pc = "poll"
    /\ ev' = "Resize"
    /\ height' \in Heights
    /\ pc' = "draw"
    /\ UNCHANGED <<entries, artifact, artifact0, catalog0, items, cursor, offset,
                   viewHeight, session, finalItems, screen, outcome, exitCode,
                   errEntry, count, writes, args, ret>>
    /\ Op("poll")
    /\ UNCHANGED finis

\* An event of another type sending the loop back to PollEvent
OtherEventNoRedraw ==
    /\ pc = "poll"
    /\ ev' = "OtherEvent"
    /\ pc' = "poll"
    /\ UNCHANGED <<entries, artifact, artifact0, catalog0, height, items, cursor, offset,
                   viewHeight, session, finalItems, screen, outcome, exitCode,
                   errEntry, count, writes, args, ret>>
    /\ Op("poll")
    /\ UNCHANGED finis

\* An event that is neither a key nor a resize (main.go:102)
OtherEvent ==
    /\ pc = "poll"
    /\ ev' = "OtherEvent"
    /\ pc' = "draw"
    /\ UNCHANGED <<entries, artifact, artifact0, catalog0, height, items, cursor, offset,
                   viewHeight, session, finalItems, screen, outcome, exitCode,
                   errEntry, count, writes, args, ret>>
    /\ Op("poll")
    /\ UNCHANGED finis

\* if aborted { ...; return } (main.go:63-66)
AbortedExit ==
    /\ pc = "returned"
    /\ session = "Aborted"
    /\ outcome' = "aborted"
    /\ exitCode' = 0
    /\ pc' = "done"
    /\ UNCHANGED <<entries, artifact, artifact0, catalog0, height, items, cursor, offset,
                   viewHeight, ev, session, finalItems, screen, errEntry,
                   count, writes, args, ret>>
    /\ UNCHANGED hist

\* count, err := writeSelections(finalItems, cwd) and the report
\* (main.go:68-77)
WriteSelections ==
    /\ pc = "returned"
    /\ session = "Committed"
    /\ LET w == writeSelections(finalItems)
       IN  /\ artifact' = File(w.text)
           /\ count' = w.count
           /\ outcome' = IF w.count = 0 THEN "empty" ELSE "saved"
    /\ writes' = writes + 1
    /\ exitCode' = 0
    /\ pc' = "done"
    /\ UNCHANGED <<entries, artifact0, catalog0, height, items, cursor, offset,
                   viewHeight, ev, session, finalItems, screen, errEntry,
                   args, ret>>
    /\ UNCHANGED hist

Startup ==
    \/ ListMarkdown
    \/ ListError
    \/ ApplyPrevious
    \/ NothingToDo
    \/ CallSelector

Selector ==
    \/ StartSelector
    \/ ScreenError
    \/ Draw
    \/ MoveUp
    \/ MoveDown
    \/ Toggle
    \/ IgnoredKey
    \/ Cancel
    \/ Commit
    \/ OtherEvent
    \/ AbortedExit
    \/ WriteSelections

Next == Startup \/ Selector \/ Resize

\* A run of the whole program
Spec == Init /\ [][Next]_vars

(***************************************************************************)
(* The selector session on catalogs of up to MaxItems items: the run from  *)
(* main.go:59 on, for the catalog of the files a.md, aa.md, aaa.md, ...    *)
(* with output.txt absent or naming every item.                            *)
(***************************************************************************)
NameOf(i) == [k \in 1..i |-> "a"]

CatalogOf(n) == [i \in 1..n |-> [name |-> NameOf(i), checked |-> FALSE]]

InitAt(n) ==
    /\ entries = <<>>
    /\ catalog0 = CatalogOf(n)
    /\ artifact \in {NoFile, File(writeSelections(
                        [i \in 1..n |-> [name |-> NameOf(i), checked |-> TRUE]]).text)}
    /\ artifact0 = artifact
    /\ items = applyPreviousSelections(catalog0, artifact).items
    /\ height \in Heights
    /\ pc = "select"
    /\ Idle
    /\ NoCall

InitSelector == \E n \in 1..MaxItems : InitAt(n)

SpecSelector == InitSelector /\ [][Selector \/ Resize]_vars

\* The session on a terminal that is never resized
SpecFixed == InitSelector /\ [][Selector]_vars

(***************************************************************************)
(* runSelector and the writer applied to any catalog, the empty one        *)
(* included.  main itself ends the run at main.go:54-57 before it calls    *)
(* runSelector with an empty catalog.                                      *)
(***************************************************************************)
InitAnyCatalog == \E n \in 0..MaxItems : InitAt(n)

SpecAnyCatalog == InitAnyCatalog /\ [][Selector \/ Resize]_vars

(***************************************************************************)
(* Functions applied on their own                                          *)
(***************************************************************************)
Quiet ==
    /\ entries = <<>>
    /\ artifact = NoFile
    /\ artifact0 = NoFile
    /\ height = 2
    /\ catalog0 = <<>>
    /\ items = <<>>
    /\ Idle

\* ensureVisible on integers around the ranges a session meets
EnsureVisibleArgs ==
    [cursor : -1..MaxItems, offset : -2..(MaxItems + 2),
     viewHeight : -1..MaxHeight, total : 0..MaxItems]

\* The calls on a catalog of ten items given as examples
EnsureVisibleExamples ==
    {[cursor |-> 0, offset |-> 5, viewHeight |-> 3, total |-> 10],
     [cursor |-> 9, offset |-> 0, viewHeight |-> 3, total |-> 10],
     [cursor |-> 2, offset |-> 0, viewHeight |-> 10, total |-> 3]}

InitEnsureVisible ==
    /\ Quiet
    /\ pc = "ensureVisible"
    /\ args \in EnsureVisibleArgs \cup EnsureVisibleExamples
    /\ ret = <<>>

CallEnsureVisible ==
    /\ pc = "ensureVisible"
    /\ ret' = ensureVisible(args.cursor, args.offset, args.viewHeight, args.total)
    /\ pc' = "ensureVisible-done"
    /\ UNCHANGED <<entries, artifact, artifact0, catalog0, height, items,
                   cursor, offset, viewHeight, ev, session, finalItems, screen,
                   outcome, exitCode, errEntry, count, writes, args>>
    /\ UNCHANGED hist

SpecEnsureVisible == InitEnsureVisible /\ [][CallEnsureVisible]_vars

\* listMarkdown applied to a directory
InitListMarkdown ==
    /\ Quiet
    /\ pc = "listMarkdown"
    /\ args \in ListDirs
    /\ ret = <<>>

CallListMarkdown ==
    /\ pc = "listMarkdown"
    /\ ret' \in listMarkdown(args)
    /\ pc' = "listMarkdown-done"
    /\ UNCHANGED <<entries, artifact, artifact0, catalog0, height, items,
                   cursor, offset, viewHeight, ev, session, finalItems, screen,
                   outcome, exitCode, errEntry, count, writes, args>>
    /\ UNCHANGED hist

SpecListMarkdown == InitListMarkdown /\ [][CallListMarkdown]_vars

\* Every assignment of checked flags to a catalog
WithFlags(cat) ==
    {[i \in 1..Len(cat) |-> [name |-> cat[i].name, checked |-> f[i]]] :
        f \in [1..Len(cat) -> BOOLEAN]}

Unchecked(cat) == [i \in 1..Len(cat) |-> [name |-> cat[i].name, checked |-> FALSE]]

\* The catalogs listMarkdown returns for the directories, with any flags
CheckedCatalogs ==
    UNION {WithFlags(cat) :
              cat \in UNION {listMarkdown(d) : d \in DirsOver(EntriesOver(MoreStems))}}

\* writeSelections on a catalog, then applyPreviousSelections on the same
\* catalog freshly listed
InitRoundTrip ==
    /\ Quiet
    /\ pc = "write"
    /\ args \in CheckedCatalogs
    /\ ret = <<>>

RoundTripWrite ==
    /\ pc = "write"
    /\ LET w == writeSelections(args)
       IN  /\ artifact' = File(w.text)
           /\ count' = w.count
    /\ writes' = writes + 1
    /\ pc' = "reconcile"
    /\ UNCHANGED <<entries, artifact0, catalog0, height, items, cursor, offset,
                   viewHeight, ev, session, finalItems, screen, outcome,
                   exitCode, errEntry, args, ret>>
    /\ UNCHANGED hist

RoundTripReconcile ==
    /\ pc = "reconcile"
    /\ ret' = applyPreviousSelections(Unchecked(args), artifact)
    /\ pc' = "reconcile-done"
    /\ UNCHANGED <<entries, artifact, artifact0, catalog0, height, items,
                   cursor, offset, viewHeight, ev, session, finalItems, screen,
                   outcome, exitCode, errEntry, count, writes, args>>
    /\ UNCHANGED hist

SpecRoundTrip == InitRoundTrip /\ [][RoundTripWrite \/ RoundTripReconcile]_vars

(***************************************************************************)
(* Properties                                                              *)
(***************************************************************************)
\* C1: on a terminal of fixed size and a non-empty catalog, after any
\* sequence of events the cursor is an index of the catalog and lies in the
\* window [offset, offset + viewHeight - 1], viewHeight being the terminal
\* height less the 2 header rows and at least 1.
C1_CursorInViewport ==
    (session # "None" /\ Len(items) > 0) =>
        /\ cursor \in 0..(Len(items) - 1)
        /\ offset <= cursor
        /\ cursor <= offset + max(1, height - 2) - 1

\* C1 witness: the list is scrolled down to its last item and a toggle was
\* the last event.
C1_Witness ==
    /\ session = "Running"
    /\ ev = "Space"
    /\ Len(items) > max(1, height - 2)
    /\ cursor = Len(items) - 1
    /\ offset = Len(items) - max(1, height - 2)
    /\ offset > 0

\* C2: at every redraw of a non-empty catalog, also the one that follows a
\* resize, the cursor lies in [offset, offset + viewHeight - 1] for the
\* session offset and the view height of that redraw.
C2_CursorVisibleAtRedraw ==
    (pc = "poll" /\ Len(items) > 0) =>
        /\ offset <= cursor
        /\ cursor <= offset + viewHeight - 1

\* C3: writing the checked subset of a catalog and reconciling a fresh,
\* identical, unchecked catalog against the written file succeeds and
\* reproduces the checked flags item by item.
C3_RoundTrip ==
    pc = "reconcile-done" => (~ret.err /\ ret.items = args)

\* The persisted lines, trimmed
PersistedEntries(file) ==
    LET lines == ScanLines(file.text, <<>>)
    IN  [i \in 1..Len(lines) |-> TrimSpace(lines[i])]

Names(cat) == {cat[i].name : i \in 1..Len(cat)}

\* The positions of the non-blank persisted lines that name no item
UnknownAt(cat, file) ==
    LET persisted == PersistedEntries(file)
        names == Names(cat)
    IN  {i \in 1..Len(persisted) :
            persisted[i] # <<>> /\ persisted[i] \notin names}

\* C4: if output.txt holds a non-blank line that is no item name, the run
\* fails with the unknown-entry error naming the first such line, and ends
\* with status 1 without a selector session and without a write.
C4_UnknownEntryFails ==
    (/\ pc \notin {"main", "listed"}
     /\ outcome # "dirError"
     /\ artifact0.exists) =>
        LET unknown == UnknownAt(catalog0, artifact0)
            first == CHOOSE i \in unknown : \A j \in unknown : i <= j
        IN  unknown # {} =>
                /\ outcome = "unknownEntry"
                /\ errEntry = PersistedEntries(artifact0)[first]
                /\ exitCode = 1
                /\ pc = "done"
                /\ session = "None"
                /\ screen = "none"
                /\ writes = 0
                /\ artifact = artifact0

\* C4 witness: two different lines name no item of a non-empty catalog, and
\* the run failed naming the first.
C4_Witness ==
    /\ outcome = "unknownEntry"
    /\ Len(catalog0) > 0
    /\ UnknownAt(catalog0, artifact0) = {1, 2}
    /\ errEntry = PersistedEntries(artifact0)[1]
    /\ errEntry # PersistedEntries(artifact0)[2]

\* The names of the checked items, in catalog order
CheckedNames(its) ==
    LET IsChecked(it) == it.checked
        sel == SelectSeq(its, IsChecked)
    IN  [i \in 1..Len(sel) |-> sel[i].name]

RECURSIVE JoinLines(_)
JoinLines(names) ==
    IF names = <<>> THEN <<>>
    ELSE JoinLines(SubSeq(names, 1, Len(names) - 1))
            \o names[Len(names)] \o <<"\n">>

\* C5: after a commit output.txt holds exactly the names of the items
\* checked at the moment of the commit, in catalog order, each followed by
\* one newline, and the count is the number of those items.
C5_CommitWritesChecked ==
    (pc = "done" /\ session = "Committed") =>
        /\ finalItems = items
        /\ artifact = File(JoinLines(CheckedNames(items)))
        /\ count = Cardinality({i \in 1..Len(items) : items[i].checked})
        /\ writes = 1
        /\ exitCode = 0

\* C5 witness: the example.  The candidates are alpha, beta, gamma, nothing
\* was checked at startup, and after a move down and a toggle the commit
\* wrote "beta" and a newline, and returned 1.
C5_Witness ==
    /\ pc = "done"
    /\ session = "Committed"
    /\ ~artifact0.exists
    /\ [i \in 1..Len(catalog0) |-> catalog0[i].name] =
           <<(<<"a", "l", "p", "h", "a">>), (<<"b", "e", "t", "a">>),
             (<<"g", "a", "m", "m", "a">>)>>
    /\ cursor = 1
    /\ [i \in 1..Len(items) |-> items[i].checked] = <<FALSE, TRUE, FALSE>>
    /\ artifact = File(<<"b", "e", "t", "a", "\n">>)
    /\ count = 1

\* C6: a cancel key moves the session to Aborted and returns no catalog; the
\* run then ends with status 0 and output.txt as it was at startup.  The
\* file is written only after a commit, and at most once.
C6_CancelLeavesArtifact ==
    /\ ev \in CancelKeys =>
            (session = "Aborted" /\ finalItems = Nil /\ pc \in {"returned", "done"})
    /\ session = "Aborted" => (artifact = artifact0 /\ writes = 0)
    /\ (session = "Aborted" /\ pc = "done") =>
            (outcome = "aborted" /\ exitCode = 0)
    /\ writes <= 1
    /\ writes = 1 => (session = "Committed" /\ pc = "done")
    /\ artifact # artifact0 => writes = 1

\* C6 witness: the run was cancelled with 'q' after a toggle that made the
\* checked set differ from the one output.txt holds.
C6_Witness ==
    /\ outcome = "aborted"
    /\ ev = "q"
    /\ artifact0.exists
    /\ writeSelections(items).text # artifact0.text
    /\ artifact = artifact0

\* C7: for viewHeight >= 1, total >= 1, a cursor in [0, total-1] and any
\* offset, ensureVisible returns an offset' with offset' <= cursor <=
\* offset' + viewHeight - 1 and 0 <= offset' <= max(0, total - viewHeight):
\* the window lies inside [0, total) when total >= viewHeight, and offset'
\* is 0 when total <= viewHeight.
C7_EnsureVisibleRange ==
    (/\ pc = "ensureVisible-done"
     /\ args.viewHeight >= 1
     /\ args.total >= 1
     /\ args.cursor \in 0..(args.total - 1)) =>
        /\ ret <= args.cursor
        /\ args.cursor <= ret + args.viewHeight - 1
        /\ 0 <= ret
        /\ ret <= (IF args.total > args.viewHeight
                   THEN args.total - args.viewHeight ELSE 0)
        /\ args.total >= args.viewHeight => ret + args.viewHeight <= args.total
        /\ args.total <= args.viewHeight => ret = 0

\* C7 witness: a cursor below the window of a long list made it scroll.
C7_Witness ==
    /\ pc = "ensureVisible-done"
    /\ args.viewHeight >= 1
    /\ args.total > args.viewHeight
    /\ args.cursor \in 0..(args.total - 1)
    /\ args.cursor >= args.offset + args.viewHeight
    /\ args.offset < 0
    /\ ret = args.cursor - args.viewHeight + 1
    /\ ret > 0

\* C8: whenever the listing is empty the run ends in the "nothing to do"
\* outcome with status 0, without a session and without a write, whatever
\* output.txt holds.
C8_EmptyListingIsNothingToDo ==
    (pc = "done" /\ outcome # "dirError" /\ catalog0 = <<>>) =>
        /\ outcome = "nothing"
        /\ exitCode = 0
        /\ session = "None"
        /\ writes = 0

\* C9: on an empty catalog the selector loop accepts events: moves and
\* toggles change nothing, a cancel key aborts, and Enter commits, which
\* writes zero entries and leaves output.txt with zero bytes, with status 0.
C9_EmptyCatalogSession ==
    Len(catalog0) = 0 =>
        /\ items = <<>>
        /\ cursor = 0
        /\ offset = 0
        /\ ev \in CancelKeys => session = "Aborted"
        /\ ev = "Enter" => session = "Committed"
        /\ ev \in (UpKeys \cup DownKeys \cup {"Space"}) => session = "Running"
        /\ (pc = "done" /\ session = "Committed") =>
                /\ count = 0
                /\ artifact = File(<<>>)
                /\ outcome = "empty"
                /\ exitCode = 0

\* C9 witness: Enter on the empty catalog replaced an absent output.txt by
\* an empty one.
C9_Witness ==
    /\ Len(catalog0) = 0
    /\ pc = "done"
    /\ ev = "Enter"
    /\ ~artifact0.exists
    /\ artifact = File(<<>>)
    /\ count = 0

\* C10: after a successful reconciliation an item is checked if and only if
\* it was checked before or its name is a trimmed non-blank persisted line;
\* an absent or empty file leaves the catalog as it was.
C10_CheckedIffPersisted ==
    pc = "reconciled" =>
        /\ Len(items) = Len(catalog0)
        /\ \A i \in 1..Len(items) :
              /\ items[i].name = catalog0[i].name
              /\ items[i].checked <=>
                    \/ catalog0[i].checked
                    \/ /\ artifact0.exists
                       /\ \E k \in 1..Len(PersistedEntries(artifact0)) :
                             /\ PersistedEntries(artifact0)[k] # <<>>
                             /\ PersistedEntries(artifact0)[k] = items[i].name

\* C11: every catalog listMarkdown builds has non-empty item names that are
\* pairwise distinct, whatever the directory holds, also files whose names
\* differ only in the letter case of the .md extension.
C11_DistinctNames ==
    pc = "listed" =>
        /\ \A i \in 1..Len(catalog0) : catalog0[i].name # <<>>
        /\ \A i, j \in 1..Len(catalog0) :
              i # j => catalog0[i].name # catalog0[j].name

\* The stems of the regular files whose name ends in ".md" in any letter
\* case and has something before it
AcceptedStems(es) ==
    LET IsAccepted(e) ==
            /\ e.kind = "file"
            /\ Len(e.name) > 3
            /\ ToLower(SubSeq(e.name, Len(e.name) - 2, Len(e.name))) = <<".", "m", "d">>
        kept == SelectSeq(es, IsAccepted)
    IN  [i \in 1..Len(kept) |-> SubSeq(kept[i].name, 1, Len(kept[i].name) - 3)]

\* How many times x occurs in the sequence
Occurrences(seq, x) == Cardinality({i \in 1..Len(seq) : seq[i] = x})

\* C12: the catalog listMarkdown builds is a permutation of the accepted
\* stems, every item is unchecked, and for every adjacent pair the
\* lower-cased name of the earlier item is <= that of the later one; the
\* files B.md, a.md, C.md give the order a, B, C.
C12_CatalogSorted ==
    pc = "listMarkdown-done" =>
        LET stems == AcceptedStems(args)
            names == [i \in 1..Len(ret) |-> ret[i].name]
        IN  /\ Len(names) = Len(stems)
            /\ \A i \in 1..Len(stems) :
                  Occurrences(names, stems[i]) = Occurrences(stems, stems[i])
            /\ \A i \in 1..Len(ret) : ~ret[i].checked
            /\ \A i \in 1..(Len(ret) - 1) :
                  ~StrLess(ToLower(names[i + 1]), ToLower(names[i]))
            /\ args = OrderExampleDir => names = <<(<<"a">>), (<<"B">>), (<<"C">>)>>

\* C12 witness: the example, B.md, a.md and C.md listed as a, B, C.
C12_Witness ==
    /\ pc = "listMarkdown-done"
    /\ [i \in 1..Len(args) |-> args[i].name] =
           <<(<<"B", ".", "m", "d">>), (<<"C", ".", "m", "d">>),
             (<<"a", ".", "m", "d">>)>>
    /\ [i \in 1..Len(ret) |-> ret[i].name] = <<(<<"a">>), (<<"B">>), (<<"C">>)>>

\* The items of a catalog whose lower-cased name is the key, in order
WithKey(its, key) ==
    LET HasKey(it) == ToLower(it.name) = key
    IN  SelectSeq(its, HasKey)

\* C16: the sort is stable: the items whose names compare equal without
\* regard to letter case ("A" and "a") stand in the catalog in the order in
\* which the directory listing supplied them.
C16_StableSort ==
    pc = "listMarkdown-done" =>
        \A i \in 1..Len(ret) :
            WithKey(ret, ToLower(ret[i].name)) =
                WithKey(Accepted(args), ToLower(ret[i].name))

\* C13: once runSelector has initialised the screen, screen.Fini is called
\* exactly once on every way out of runSelector, and before output.txt is
\* written and before the process exits; when the initialisation fails,
\* the loop is never entered.
C13_ScreenFinalizedOnce ==
    /\ finis <= 1
    /\ finis = 1 <=> screen = "finalized"
    /\ screen = "active" => (session = "Running" /\ pc \in {"draw", "poll"})
    /\ (pc \in {"returned", "done"} /\ session # "None") => finis = 1
    /\ writes > 0 => finis = 1
    /\ exitCode # -1 => screen # "active"
    /\ outcome = "screenError" =>
            /\ session = "None"
            /\ screen = "none"
            /\ lastOp = "none"
            /\ finis = 0

\* C13 witness: a commit finalised the screen once and the file was written
\* after it.
C13_Witness ==
    /\ pc = "done"
    /\ session = "Committed"
    /\ outcome = "saved"
    /\ writes = 1
    /\ finis = 1
    /\ screen = "finalized"

\* C14: in the selector loop drawScreen and PollEvent alternate, starting
\* with drawScreen: of two successive screen operations one is a redraw and
\* the other a poll, every event that does not end the session (ignored
\* keys and resizes too) is followed by a redraw before the next poll, and
\* nothing is redrawn after a commit or a cancel.
C14_RedrawPollAlternate ==
    /\ lastOp # "none" => lastOp # prevOp
    /\ prevOp = "none" => lastOp \in {"none", "draw"}
    /\ pc = "poll" => lastOp = "draw"
    /\ (session = "Running" /\ lastOp = "poll") => pc = "draw"
    /\ ev \in (UpKeys \cup DownKeys \cup {"Space", "Other", "Resize", "OtherEvent"}) =>
            (session = "Running" /\ lastOp = "poll" /\ pc = "draw")
    /\ session \in {"Committed", "Aborted"} =>
            (lastOp = "poll" /\ prevOp = "draw" /\ pc \in {"returned", "done"})

\* C14 witness: a resize was polled after a redraw, and the loop is about
\* to redraw.
C14_Witness ==
    /\ ev = "Resize"
    /\ prevOp = "draw"
    /\ lastOp = "poll"
    /\ pc = "draw"
    /\ cursor > 0

\* x brought into [lo, hi]
Clamp(x, lo, hi) == IF x < lo THEN lo ELSE IF x > hi THEN hi ELSE x

\* C15: for all integer arguments, also a view height <= 0, a total of 0
\* and negative offsets, ensureVisible returns what the five rules give:
\* 0 when viewHeight <= 0; otherwise the offset moved to the cursor when
\* the cursor is above the window, to cursor - viewHeight + 1 when it is
\* below, and then clamped into [0, max(0, total - viewHeight)].  In
\* particular (0,5,3,10) gives 0, (9,0,3,10) gives 7, (2,0,10,3) gives 0.
C15_EnsureVisibleRules ==
    pc = "ensureVisible-done" =>
        LET maxOffset == IF args.total - args.viewHeight > 0
                         THEN args.total - args.viewHeight ELSE 0
            moved == IF args.cursor < args.offset THEN args.cursor
                     ELSE IF args.cursor >= args.offset + args.viewHeight
                          THEN args.cursor - args.viewHeight + 1
                          ELSE args.offset
        IN  /\ ret = (IF args.viewHeight <= 0 THEN 0 ELSE Clamp(moved, 0, maxOffset))
            /\ args = [cursor |-> 0, offset |-> 5, viewHeight |-> 3, total |-> 10] => ret = 0
            /\ args = [cursor |-> 9, offset |-> 0, viewHeight |-> 3, total |-> 10] => ret = 7
            /\ args = [cursor |-> 2, offset |-> 0, viewHeight |-> 10, total |-> 3] => ret = 0

\* C15 witness: the example of a cursor on the last of ten items, which
\* scrolls a window of three rows to offset 7.
C15_Witness ==
    /\ pc = "ensureVisible-done"
    /\ args = [cursor |-> 9, offset |-> 0, viewHeight |-> 3, total |-> 10]
    /\ ret = 7

\* C17: Up or 'k' decrements the cursor by exactly 1 when it is above 0
\* and leaves it otherwise; Down or 'j' increments it by exactly 1 when it
\* is below len(catalog) - 1 and leaves it otherwise.  The cursor never
\* wraps, the session stays Running and no checked flag changes.
C17_MovesStepByOne ==
    [][/\ (pc = "poll" /\ ev' \in UpKeys) =>
            /\ cursor' = (IF cursor > 0 THEN cursor - 1 ELSE cursor)
            /\ session' = "Running"
            /\ items' = items
       /\ (pc = "poll" /\ ev' \in DownKeys) =>
            /\ cursor' = (IF cursor < Len(items) - 1 THEN cursor + 1 ELSE cursor)
            /\ session' = "Running"
            /\ items' = items]_vars

\* C17 witness: 'j' was pressed with the cursor on the last of several
\* items, where it stays.
C17_Witness ==
    /\ session = "Running"
    /\ ev = "j"
    /\ Len(items) > 2
    /\ cursor = Len(items) - 1
    /\ offset > 0

\* C18: ' ' flips the checked flag of the item at the cursor and of no
\* other, and leaves the cursor, the names and the order; no other event
\* changes a checked flag; the catalog has the same length and order in
\* every state of a session.
C18_ToggleFlipsOne ==
    /\ [][pc = "poll" =>
            IF ev' = "Space"
            THEN /\ cursor' = cursor
                 /\ Len(items') = Len(items)
                 /\ \A i \in 1..Len(items) :
                       /\ items'[i].name = items[i].name
                       /\ items'[i].checked =
                             (IF i = cursor + 1 THEN ~items[i].checked
                              ELSE items[i].checked)
            ELSE items' = items]_vars
    /\ [](session # "None" =>
            /\ Len(items) = Len(catalog0)
            /\ \A i \in 1..Len(items) : items[i].name = catalog0[i].name)

\* C18 witness: a toggle unchecked the second item, which output.txt had
\* checked, and the first is still checked.
C18_Witness ==
    /\ session = "Running"
    /\ ev = "Space"
    /\ cursor = 1
    /\ Len(items) > 2
    /\ artifact0.exists
    /\ items[1].checked
    /\ ~items[2].checked

\* C19: in every state in which a redraw has been issued the session offset
\* satisfies 0 <= offset <= max(0, len(catalog) - viewHeight) for the view
\* height of that redraw, also after the terminal was made larger or
\* smaller.
C19_OffsetInRangeAtRedraw ==
    (session = "Running" /\ lastOp = "draw") =>
        /\ 0 <= offset
        /\ offset <= (IF Len(items) - viewHeight > 0
                      THEN Len(items) - viewHeight ELSE 0)

\* The smaller of two integers
Min(a, b) == IF a < b THEN a ELSE b

\* C20: at every redraw of a non-empty catalog, for any terminal size and
\* any session offset >= 0, the rows drawn are the items of a range [o, e)
\* with 0 <= o <= e <= len(catalog) and e - o = min(viewHeight,
\* len(catalog)): no index outside the catalog, and no blank rows below the
\* last item when the catalog fills the view.
C20_DrawnRange ==
    (session = "Running" /\ lastOp = "draw" /\ Len(items) > 0) =>
        \A off \in {offset} \cup 0..(MaxItems + 2) :
            LET o == DrawStart(items, off, viewHeight)
                e == DrawEnd(items, off, viewHeight)
            IN  /\ 0 <= o
                /\ o <= e
                /\ e <= Len(items)
                /\ e - o = Min(viewHeight, Len(items))

\* C20 witness: the terminal was made larger while the list was scrolled
\* down, and the redraw starts above the session offset to fill the view.
C20_Witness ==
    /\ session = "Running"
    /\ lastOp = "draw"
    /\ Len(items) > viewHeight
    /\ offset > Len(items) - viewHeight
    /\ DrawStart(items, offset, viewHeight) = Len(items) - viewHeight
    /\ DrawEnd(items, offset, viewHeight) = Len(items)

=============================================================================
